---- MODULE Spec2Model ----
(***************************************************************************)
(* Flappy Bird with NEAT evolution (flappy.py): the obstacle pool, the     *)
(* bird physics, the collision and scoring engine, the evaluation harness  *)
(* eval_genomes and the manual-play loop main_human_mode.                  *)
(*                                                                         *)
(* Units.  Bird.y and Bird.vel_y are floats that only ever hold multiples  *)
(* of 0.5 (GRAVITY = 0.5, FLAP_STRENGTH = -8, start y = 300), so the model *)
(* keeps them exactly as integers counted in half pixels: the fields y and *)
(* vel_y of a bird record hold twice the Python value.  Everything else    *)
(* (pipe x, gap_top, speeds, scores, fitness) is an integer in the code    *)
(* and in the model.                                                       *)
(*                                                                         *)
(* Randomness.  Python's random module is a deterministic generator whose  *)
(* output stream is fixed by its seed.  The seed is the nondeterministic   *)
(* input: Init draws it from Seeds, a seed being the (periodic) stream of  *)
(* unit draws the pipes receive; randint scales a unit draw into [lo, hi]. *)
(*                                                                         *)
(* Controllers.  A NEAT network is a deterministic function of its five    *)
(* inputs.  A genome is modelled by the parameters of such a function (see *)
(* activate); the population handed to eval_genomes is drawn from          *)
(* GenomePool.                                                             *)
(***************************************************************************)
EXTENDS Integers, Sequences, FiniteSets, TLC

\* ------------------------------------------------------------------------
\* Program constants (flappy.py, section 2)
\* ------------------------------------------------------------------------
WINDOW_WIDTH == 800
WINDOW_HEIGHT == 600
BIRD_X == 100
BIRD_WIDTH == 40
BIRD_HEIGHT == 30
\* FLAP_STRENGTH = -8 and GRAVITY = 0.5, in half pixels per frame
FLAP_STRENGTH == -16
GRAVITY == 1
BIRD_COLLISION_RATIO == 1
PIPE_WIDTH == 180
PIPE_GAP == 150
MIN_PIPE_HEIGHT == 50
PIPE_SPEED_BASE == 3
MIN_PIPE_SPACING == 200
MAX_PIPE_SPACING == 400
BG_SCROLL_SPEED_BASE == 2
NUM_PIPES == 5
\* HITBOX_SHRINK_FACTOR = 0.2, kept as the fraction 1/5
HITBOX_SHRINK_DEN == 5
\* the hard frame limit of eval_genomes (frame_count > 10000)
FRAME_LIMIT == 10000
\* the penalty of an elimination and the bonus of a pass event
PENALTY == 1
PASS_BONUS == 5

\* ------------------------------------------------------------------------
\* Bounds of the model
\* ------------------------------------------------------------------------
\* number of genomes handed to eval_genomes
NumGenomes == 2
\* number of sample points randint takes in [lo, hi] (lo and hi included)
NumSamples == 2
\* frames explored per round under Spec (SpecCap runs to the frame limit)
MaxFrames == 330
\* frames explored per game of manual play under SpecManual
ManualFrames == 420

\* ------------------------------------------------------------------------
\* State
\* ------------------------------------------------------------------------
VARIABLES
  pc,                \* position of the program (see the actions)
  seed,              \* the seed of random: the stream of unit draws
  rng_pos,           \* position of the generator in that stream
  pipes,             \* manual play: the module-level pool (line 275)
  bird,              \* manual play: the module-level bird (line 279)
  game_state,        \* manual play: STATE_START, STATE_PLAYING, STATE_GAME_OVER
  score,             \* manual play: score
  high_score,        \* manual play: high_score
  player,            \* manual play: how the human at the keyboard plays
  ticks,             \* manual play: frames played in the current game
  genomes,           \* AI: the genomes handed to eval_genomes, in order
  fitness,           \* AI: genome.fitness, by position in genomes
  nets,              \* AI: nets, each entry the genome its network was made of
  ge,                \* AI: ge, each entry a position in genomes
  ai_birds,          \* AI: ai_birds
  local_pipes,       \* AI: local_pipes
  frame_count,       \* AI: frame_count
  local_score,       \* AI: local_score
  current_pipe_speed,\* the frame's current_pipe_speed
  pipe_i,            \* position of the running "for pipe in ..." loop
  indices_to_remove  \* AI: indices_to_remove

vars == <<pc, seed, rng_pos, pipes, bird, game_state, score, high_score, player,
          ticks, genomes, fitness, nets, ge, ai_birds, local_pipes, frame_count,
          local_score, current_pipe_speed, pipe_i, indices_to_remove>>

humanVars == <<pipes, bird, game_state, score, high_score, player, ticks>>
aiVars == <<genomes, fitness, nets, ge, ai_birds, local_pipes, frame_count,
            local_score, indices_to_remove>>

STATE_START == 0
STATE_PLAYING == 1
STATE_GAME_OVER == 2

\* ------------------------------------------------------------------------
\* random
\* ------------------------------------------------------------------------
Units == 0 .. (NumSamples - 1)

\* the seeds: every stream of period two over the unit draws
Seeds == [{1, 2} -> Units]

\* the position of the generator n draws after pos
AdvanceFrom(sd, pos, n) == ((pos - 1 + n) % Len(sd)) + 1

\* the k-th unit draw of the generator at pos (k = 0 is its next one)
UnitAt(sd, pos, k) == sd[AdvanceFrom(sd, pos, k)]

NextUnit(k) == UnitAt(seed, rng_pos, k)
Advance(n) == AdvanceFrom(seed, rng_pos, n)

\* random.randint(lo, hi) for the unit draw u: lo for the least draw, hi for
\* the greatest, evenly spread in between
randint(u, lo, hi) == lo + (u * (hi - lo)) \div (NumSamples - 1)

\* ------------------------------------------------------------------------
\* Pipe
\* ------------------------------------------------------------------------
\* randomize_position without the margin of MIN_PIPE_HEIGHT
randomize_position_nomargin(u) == randint(u, 0, WINDOW_HEIGHT - PIPE_GAP)

\* Pipe.randomize_position: the new gap_top, for the unit draw u
randomize_position(u) ==
  randint(u, MIN_PIPE_HEIGHT, WINDOW_HEIGHT - PIPE_GAP - MIN_PIPE_HEIGHT)

\* Pipe.__init__(x), its gap_top drawn with u
Pipe(x, u) == [x |-> x, scored |-> FALSE, gap_top |-> randomize_position(u)]

\* the pool built by "for i in range(NUM_PIPES)", with the next NUM_PIPES
\* draws of the generator at pos
NewPool(sd, pos) ==
  [i \in 1 .. NUM_PIPES |->
     Pipe(WINDOW_WIDTH + (i - 1) * MIN_PIPE_SPACING, UnitAt(sd, pos, i - 1))]

Max(S) == CHOOSE m \in S : \A n \in S : n <= m

\* max(p.x for p in all_pipes if p is not self), self being all_pipes[i]
rightmost_x(all_pipes, i) ==
  Max({all_pipes[j].x : j \in (DOMAIN all_pipes) \ {i}})

\* Pipe.reset_position for all_pipes[i]: dist is drawn with u1, then
\* randomize_position draws with u2
reset_position(all_pipes, i, u1, u2) ==
  [all_pipes EXCEPT ![i] =
     [x |-> rightmost_x(all_pipes, i)
              + randint(u1, MIN_PIPE_SPACING, MAX_PIPE_SPACING),
      scored |-> FALSE,
      gap_top |-> randomize_position(u2)]]

\* does Pipe.update recycle all_pipes[i] once it has moved by pipe_speed
Recycles(all_pipes, i, pipe_speed) ==
  (all_pipes[i].x - pipe_speed) + PIPE_WIDTH < 0

\* Pipe.update recycling as soon as the left edge is off screen
PipeUpdate_leftedge(all_pipes, i, pipe_speed, u1, u2) ==
  LET moved == [all_pipes EXCEPT ![i].x = @ - pipe_speed]
  IN  IF moved[i].x < 0
        THEN reset_position(moved, i, u1, u2)
        ELSE moved

\* Pipe.update(pipe_speed, all_pipes) for all_pipes[i]; u1 and u2 are the
\* draws a recycle takes
PipeUpdate(all_pipes, i, pipe_speed, u1, u2) ==
  LET moved == [all_pipes EXCEPT ![i].x = @ - pipe_speed]
  IN  IF moved[i].x + PIPE_WIDTH < 0
        THEN reset_position(moved, i, u1, u2)
        ELSE moved

\* Pipe.get_rects: <<top_rect, bottom_rect>>; a rect is <<left, top, w, h>>.
\* new_width = PIPE_WIDTH * 0.2 and offset_x = (PIPE_WIDTH - new_width) / 2
get_rects(p) ==
  LET new_width == PIPE_WIDTH \div HITBOX_SHRINK_DEN
      offset_x == (PIPE_WIDTH - new_width) \div 2
  IN  << <<p.x + offset_x, 0, new_width, p.gap_top>>,
         <<p.x + offset_x, p.gap_top + PIPE_GAP, new_width,
           WINDOW_HEIGHT - (p.gap_top + PIPE_GAP)>> >>

\* ------------------------------------------------------------------------
\* Bird (y and vel_y in half pixels)
\* ------------------------------------------------------------------------
\* Bird.__init__; tag is the identity of the object (its creation order)
Bird(tag) == [tag |-> tag, x |-> BIRD_X, y |-> 2 * (WINDOW_HEIGHT \div 2),
              vel_y |-> 0]

\* Bird.reset
BirdReset(b) == [b EXCEPT !.x = BIRD_X, !.y = 2 * (WINDOW_HEIGHT \div 2),
                          !.vel_y = 0]

\* Bird.flap adding the impulse to the velocity
flap_additive(b) == [b EXCEPT !.vel_y = b.vel_y + FLAP_STRENGTH]

\* Bird.flap
flap(b) == [b EXCEPT !.vel_y = FLAP_STRENGTH]

\* Bird.update keeping the bird below the ceiling (y clamped at 0)
BirdUpdate_clamped(b) ==
  [b EXCEPT !.vel_y = b.vel_y + GRAVITY,
            !.y = IF b.y + (b.vel_y + GRAVITY) < 0 THEN 0
                  ELSE b.y + (b.vel_y + GRAVITY)]

\* Bird.update
BirdUpdate(b) == [b EXCEPT !.vel_y = b.vel_y + GRAVITY,
                           !.y = b.y + (b.vel_y + GRAVITY)]

\* int(v) of pygame.Rect for a value v given in half pixels: truncation
\* towards zero
Trunc2(v2) == IF v2 >= 0 THEN v2 \div 2 ELSE -((-v2) \div 2)

\* Bird.get_rect; collision_w = BIRD_WIDTH and collision_h = BIRD_HEIGHT
\* (BIRD_COLLISION_RATIO = 1), so cx = x and cy = y
get_rect(b) ==
  LET collision_w == BIRD_WIDTH * BIRD_COLLISION_RATIO
      collision_h == BIRD_HEIGHT * BIRD_COLLISION_RATIO
  IN  <<b.x + (BIRD_WIDTH - collision_w) \div 2,
        Trunc2(b.y + (BIRD_HEIGHT - collision_h)),
        collision_w, collision_h>>

\* pygame.Rect.colliderect
colliderect(a, b) ==
  /\ a[3] # 0 /\ a[4] # 0 /\ b[3] # 0 /\ b[4] # 0
  /\ a[1] < b[1] + b[3]
  /\ a[2] < b[2] + b[4]
  /\ a[1] + a[3] > b[1]
  /\ a[2] + a[4] > b[2]

\* bird_rect.colliderect(top_rect) or bird_rect.colliderect(bottom_rect)
HitsPipe(b, p) ==
  \/ colliderect(get_rect(b), get_rects(p)[1])
  \/ colliderect(get_rect(b), get_rects(p)[2])

\* ------------------------------------------------------------------------
\* Difficulty
\* ------------------------------------------------------------------------
\* get_dynamic_speeds with one more unit of speed per point scored
get_dynamic_speeds_perpoint(current_score) ==
  <<BG_SCROLL_SPEED_BASE + current_score, PIPE_SPEED_BASE + current_score>>

\* get_dynamic_speeds(current_score): <<bg_speed, pipe_speed>>
get_dynamic_speeds(current_score) ==
  LET increment == current_score \div 5
  IN  <<BG_SCROLL_SPEED_BASE + increment, PIPE_SPEED_BASE + increment>>

\* ------------------------------------------------------------------------
\* NEAT: genomes and their networks
\* ------------------------------------------------------------------------
\* A genome is the parameters of the function its network computes:
\* output[0] is 1 when the nearest pipe is closer than `near` or the bird is
\* more than `margin` below the gap's top, and `idle` / 2 otherwise.
GenomePool ==
  { [margin |-> WINDOW_HEIGHT, near |-> -(PIPE_WIDTH + 50), idle |-> 1],
    [margin |-> 75, near |-> -(PIPE_WIDTH + 50), idle |-> 0],
    [margin |-> 75, near |-> 0, idle |-> 0],
    [margin |-> 75, near |-> -102, idle |-> 0] }

\* the populations NEAT may hand to eval_genomes
Populations == [1 .. NumGenomes -> GenomePool]

\* net.activate((y, vel_y, nearest_pipe_dist, top_center, bottom_center))[0],
\* doubled (0, 1 or 2 for 0, 0.5 or 1); y and vel_y in half pixels
activate(g, y, vel_y, nearest_pipe_dist, top_center, bottom_center) ==
  IF nearest_pipe_dist < g.near \/ y > 2 * (top_center + g.margin)
    THEN 2
    ELSE g.idle

\* ------------------------------------------------------------------------
\* eval_genomes, step by step
\* ------------------------------------------------------------------------
\* [12.8] the pipe just ahead of bird b: its position in all_pipes, 0 for None
NearestPipe(b, all_pipes) ==
  LET cand == {i \in DOMAIN all_pipes :
                 (all_pipes[i].x - b.x) + PIPE_WIDTH > -50}
  IN  IF cand = {} THEN 0
      ELSE CHOOSE i \in cand :
             \A j \in cand :
                \/ all_pipes[i].x < all_pipes[j].x
                \/ (all_pipes[i].x = all_pipes[j].x /\ i <= j)

\* the flap decision with >= for >
FlapDecision_geq(output2) == output2 >= 1

\* [12.10] output[0] > 0.5, the output doubled
FlapDecision(output2) == output2 > 1

\* [12.8-12.10] bird b after its network g has decided
Decide(b, g, all_pipes) ==
  LET n == NearestPipe(b, all_pipes)
  IN  IF n = 0 THEN b
      ELSE IF FlapDecision(activate(g, b.y, b.vel_y, all_pipes[n].x - b.x,
                                    all_pipes[n].gap_top,
                                    all_pipes[n].gap_top + PIPE_GAP))
             THEN flap(b)
             ELSE b

\* the bounds check without the floor
OutOfBounds_ceiling(b) == b.y < 0

\* [12.12] ai_bird.y < 0 or (ai_bird.y + BIRD_HEIGHT) >= WINDOW_HEIGHT
OutOfBounds(b) == b.y < 0 \/ b.y + 2 * BIRD_HEIGHT >= 2 * WINDOW_HEIGHT

\* the eliminations of bird b without the continue after the wall check
Eliminations_nocontinue(b, all_pipes) ==
  (IF b.y < 0 \/ b.y + 2 * BIRD_HEIGHT >= 2 * WINDOW_HEIGHT
     THEN <<"wall">> ELSE <<>>)
  \o (IF \E i \in DOMAIN all_pipes : HitsPipe(b, all_pipes[i])
        THEN <<"pipe">> ELSE <<>>)

\* [12.12] the eliminations of bird b in one frame, in order: the wall check
\* and its continue, then the loop over the pipes and its break
Eliminations(b, all_pipes) ==
  IF OutOfBounds(b) THEN <<"wall">>
  ELSE IF \E i \in DOMAIN all_pipes : HitsPipe(b, all_pipes[i]) THEN <<"pipe">>
  ELSE <<>>

RECURSIVE Repeat(_, _)
Repeat(v, n) == IF n = 0 THEN <<>> ELSE <<v>> \o Repeat(v, n - 1)

\* [12.12] indices_to_remove after the loop over birds[1 .. k]
RECURSIVE MarkedUpTo(_, _, _)
MarkedUpTo(birds, all_pipes, k) ==
  IF k = 0 THEN <<>>
  ELSE MarkedUpTo(birds, all_pipes, k - 1)
         \o Repeat(k, Len(Eliminations(birds[k], all_pipes)))

\* how often v occurs in the sequence s
Count(s, v) == Cardinality({i \in DOMAIN s : s[i] = v})

\* [12.13] the pipes whose pass event fires
Passing(all_pipes, ref_x) ==
  {i \in DOMAIN all_pipes :
     (all_pipes[i].x + PIPE_WIDTH) < (ref_x + BIRD_WIDTH) /\ ~all_pipes[i].scored}

\* the bonus handed only to the agents not marked in the frame
BonusReceivers_survivors(birds, marked) ==
  {j \in 1 .. Len(birds) : \A i \in DOMAIN marked : marked[i] # j}

\* [12.13] the positions j of ge that get the bonus of a pass event:
\* range(len(ai_birds))
BonusReceivers(birds, marked) == 1 .. Len(birds)

\* list.pop(idx), positions counted from 1
PopAt(s, idx) ==
  IF idx \in DOMAIN s
    THEN SubSeq(s, 1, idx - 1) \o SubSeq(s, idx + 1, Len(s))
    ELSE s

\* the removal without reversed: for idx in indices: s.pop(idx)
RECURSIVE PopReversed_forward(_, _)
PopReversed_forward(s, indices) ==
  IF indices = <<>> THEN s
  ELSE PopReversed_forward(PopAt(s, indices[1]),
                           SubSeq(indices, 2, Len(indices)))

\* [12.14] for idx in reversed(indices): s.pop(idx)
RECURSIVE PopReversed(_, _)
PopReversed(s, indices) ==
  IF indices = <<>> THEN s
  ELSE PopReversed(PopAt(s, indices[Len(indices)]),
                   SubSeq(indices, 1, Len(indices) - 1))

\* the loop condition without the test of the live set: while run
LoopGuard_always(birds) == TRUE

\* the loop condition with >= for >
LoopGuard_geq(birds) == Len(birds) >= 0

\* while run and len(ai_birds) > 0 (run stays True)
LoopGuard(birds) == Len(birds) > 0

\* [12.15] if frame_count > 10000: break
CapReached(fc) == fc > FRAME_LIMIT

\* ------------------------------------------------------------------------
\* Actions: program start
\* ------------------------------------------------------------------------
\* The module has been imported: the manual-play globals exist (the pool
\* took the first NUM_PIPES draws), nothing runs yet.
Init ==
  /\ pc = "entry"
  /\ seed \in Seeds
  /\ rng_pos = AdvanceFrom(seed, 1, NUM_PIPES)
  /\ pipes = NewPool(seed, 1)
  /\ bird = Bird(0)
  /\ game_state = STATE_START
  /\ score = 0
  /\ high_score = 0
  /\ player = <<>>
  /\ ticks = 0
  /\ genomes = <<>>
  /\ fitness = <<>>
  /\ nets = <<>>
  /\ ge = <<>>
  /\ ai_birds = <<>>
  /\ local_pipes = <<>>
  /\ frame_count = 0
  /\ local_score = 0
  /\ current_pipe_speed = 0
  /\ pipe_i = 0
  /\ indices_to_remove = <<>>

\* the fitness values a genome may carry when NEAT hands it over
PriorFitness == {0, 4}

\* "python flappy.py ai": run_neat creates the population, one of pops
RunNeat(pops) ==
  /\ pc = "entry"
  /\ pc' = "neat"
  /\ genomes' \in pops
  /\ fitness' \in [1 .. NumGenomes -> PriorFitness]
  /\ UNCHANGED <<seed, rng_pos, humanVars, nets, ge, ai_birds, local_pipes,
                 frame_count, local_score, current_pipe_speed, pipe_i,
                 indices_to_remove>>

\* ------------------------------------------------------------------------
\* Actions: eval_genomes
\* ------------------------------------------------------------------------
\* the setup of a round going on with the pool of the round before
EvalGenomes_keeppipes ==
  /\ pc = "neat"
  /\ pc' = "loop"
  /\ local_pipes' = IF local_pipes = <<>> THEN NewPool(seed, rng_pos)
                    ELSE local_pipes
  /\ rng_pos' = Advance(NUM_PIPES)
  /\ fitness' = [i \in DOMAIN genomes |-> 0]
  /\ nets' = [i \in DOMAIN genomes |-> i]
  /\ ai_birds' = [i \in DOMAIN genomes |-> Bird(i)]
  /\ ge' = [i \in DOMAIN genomes |-> i]
  /\ frame_count' = 0
  /\ local_score' = 0
  /\ current_pipe_speed' = 0
  /\ pipe_i' = 0
  /\ indices_to_remove' = <<>>
  /\ UNCHANGED <<seed, humanVars, genomes>>

\* the setup of a round without line 330, genome.fitness = 0
EvalGenomes_keepfitness ==
  /\ pc = "neat"
  /\ pc' = "loop"
  /\ local_pipes' = NewPool(seed, rng_pos)
  /\ rng_pos' = Advance(NUM_PIPES)
  /\ fitness' = fitness
  /\ nets' = [i \in DOMAIN genomes |-> i]
  /\ ai_birds' = [i \in DOMAIN genomes |-> Bird(i)]
  /\ ge' = [i \in DOMAIN genomes |-> i]
  /\ frame_count' = 0
  /\ local_score' = 0
  /\ current_pipe_speed' = 0
  /\ pipe_i' = 0
  /\ indices_to_remove' = <<>>
  /\ UNCHANGED <<seed, humanVars, genomes>>

\* [12.1-12.4] the setup of a round
EvalGenomes ==
  /\ pc = "neat"
  /\ pc' = "loop"
  /\ local_pipes' = NewPool(seed, rng_pos)
  /\ rng_pos' = Advance(NUM_PIPES)
  /\ fitness' = [i \in DOMAIN genomes |-> 0]
  /\ nets' = [i \in DOMAIN genomes |-> i]
  /\ ai_birds' = [i \in DOMAIN genomes |-> Bird(i)]
  /\ ge' = [i \in DOMAIN genomes |-> i]
  /\ frame_count' = 0
  /\ local_score' = 0
  /\ current_pipe_speed' = 0
  /\ pipe_i' = 0
  /\ indices_to_remove' = <<>>
  /\ UNCHANGED <<seed, humanVars, genomes>>

\* [12.5-12.6] the loop goes round: tick, count the frame, no QUIT event, the
\* frame's speeds.  limit bounds the frames explored.
FrameBegin(limit) ==
  /\ pc = "loop"
  /\ LoopGuard(ai_birds)
  /\ frame_count < limit
  /\ pc' = "pipes"
  /\ frame_count' = frame_count + 1
  /\ current_pipe_speed' = get_dynamic_speeds(local_score)[2]
  /\ pipe_i' = 1
  /\ UNCHANGED <<seed, rng_pos, humanVars, genomes, fitness, nets, ge, ai_birds,
                 local_pipes, local_score, indices_to_remove>>

\* [12.5] a QUIT event in the frame's event queue: pygame.quit(), sys.exit()
QuitEvent(limit) ==
  /\ pc = "loop"
  /\ LoopGuard(ai_birds)
  /\ frame_count < limit
  /\ pc' = "exit"
  /\ frame_count' = frame_count + 1
  /\ UNCHANGED <<seed, rng_pos, humanVars, genomes, fitness, nets, ge, ai_birds,
                 local_pipes, local_score, current_pipe_speed, pipe_i,
                 indices_to_remove>>

\* the loop condition fails: eval_genomes returns
LoopExit ==
  /\ pc = "loop"
  /\ ~LoopGuard(ai_birds)
  /\ pc' = "done"
  /\ UNCHANGED <<seed, rng_pos, humanVars, aiVars, current_pipe_speed, pipe_i>>

\* [12.7] one turn of "for pipe in local_pipes": pipe.update
AdvancePipe ==
  /\ pc = "pipes"
  /\ local_pipes' = PipeUpdate(local_pipes, pipe_i, current_pipe_speed,
                               NextUnit(0), NextUnit(1))
  /\ rng_pos' = IF Recycles(local_pipes, pipe_i, current_pipe_speed)
                  THEN Advance(2) ELSE rng_pos
  /\ IF pipe_i < NUM_PIPES
       THEN pipe_i' = pipe_i + 1 /\ pc' = "pipes"
       ELSE pipe_i' = 0 /\ pc' = "decide"
  /\ UNCHANGED <<seed, humanVars, genomes, fitness, nets, ge, ai_birds,
                 frame_count, local_score, current_pipe_speed,
                 indices_to_remove>>

\* [12.8-12.10] every bird's network is activated and may flap
DecideAll ==
  /\ pc = "decide"
  /\ pc' = "physics"
  /\ ai_birds' = [k \in DOMAIN ai_birds |->
                    Decide(ai_birds[k], genomes[nets[k]], local_pipes)]
  /\ UNCHANGED <<seed, rng_pos, humanVars, genomes, fitness, nets, ge,
                 local_pipes, frame_count, local_score, current_pipe_speed,
                 pipe_i, indices_to_remove>>

\* [12.11] every bird's update
Physics ==
  /\ pc = "physics"
  /\ pc' = "collide"
  /\ ai_birds' = [k \in DOMAIN ai_birds |-> BirdUpdate(ai_birds[k])]
  /\ UNCHANGED <<seed, rng_pos, humanVars, genomes, fitness, nets, ge,
                 local_pipes, frame_count, local_score, current_pipe_speed,
                 pipe_i, indices_to_remove>>

\* [12.12] out-of-bounds and collisions: penalties and marks
Collide ==
  /\ pc = "collide"
  /\ pc' = "score"
  /\ indices_to_remove' = MarkedUpTo(ai_birds, local_pipes, Len(ai_birds))
  /\ fitness' = [g \in DOMAIN fitness |->
                   fitness[g] - PENALTY *
                     Cardinality({i \in DOMAIN indices_to_remove' :
                                    ge[indices_to_remove'[i]] = g})]
  /\ UNCHANGED <<seed, rng_pos, humanVars, genomes, nets, ge, ai_birds,
                 local_pipes, frame_count, local_score, current_pipe_speed,
                 pipe_i>>

\* [12.13] pass events: the pipes are marked scored, the score counts them,
\* the bonus is handed out once per event
ScorePass ==
  /\ pc = "score"
  /\ pc' = "remove"
  /\ LET passing == Passing(local_pipes, BIRD_X)
         receivers == BonusReceivers(ai_birds, indices_to_remove)
     IN  /\ local_pipes' = [i \in DOMAIN local_pipes |->
                              IF i \in passing
                                THEN [local_pipes[i] EXCEPT !.scored = TRUE]
                                ELSE local_pipes[i]]
         /\ local_score' = local_score + Cardinality(passing)
         /\ fitness' = [g \in DOMAIN fitness |->
                          fitness[g] + PASS_BONUS * Cardinality(passing) *
                            Cardinality({j \in receivers : ge[j] = g})]
  /\ UNCHANGED <<seed, rng_pos, humanVars, genomes, nets, ge, ai_birds,
                 frame_count, current_pipe_speed, pipe_i, indices_to_remove>>

\* [12.14-12.15] the batch removal, then the frame limit
Remove ==
  /\ pc = "remove"
  /\ ai_birds' = PopReversed(ai_birds, indices_to_remove)
  /\ nets' = PopReversed(nets, indices_to_remove)
  /\ ge' = PopReversed(ge, indices_to_remove)
  /\ pc' = IF CapReached(frame_count) THEN "done" ELSE "loop"
  /\ UNCHANGED <<seed, rng_pos, humanVars, genomes, fitness, local_pipes,
                 frame_count, local_score, current_pipe_speed, pipe_i,
                 indices_to_remove>>

\* population.run: the next generation, some genomes carried over with the
\* fitness they have
NextGeneration ==
  /\ pc = "done"
  /\ pc' = "neat"
  /\ genomes' \in Populations
  /\ UNCHANGED <<seed, rng_pos, humanVars, fitness, nets, ge, ai_birds,
                 local_pipes, frame_count, local_score, current_pipe_speed,
                 pipe_i, indices_to_remove>>

\* ------------------------------------------------------------------------
\* Actions: manual play (main_human_mode)
\* ------------------------------------------------------------------------
\* how the human may play: SPACE is pressed in each of the first `taps` frames
\* of a game, and afterwards whenever `rule` says so, a rule being what a
\* genome is.  The last player taps through the first 9 frames and then lets
\* the bird fall.
PlayerPool ==
  {[rule |-> g, taps |-> 0] : g \in GenomePool}
    \cup {[rule |-> [margin |-> WINDOW_HEIGHT, near |-> -(PIPE_WIDTH + 50),
                     idle |-> 0],
           taps |-> 9]}

\* reset_game's loop starting from rightmost_x = 0
RECURSIVE ResetPipes_fromzero(_, _, _, _)
ResetPipes_fromzero(all_pipes, sd, pos, k) ==
  IF k = 0 THEN all_pipes
  ELSE LET before == ResetPipes_fromzero(all_pipes, sd, pos, k - 1)
           rightmost == IF k = 1 THEN 0 ELSE before[k - 1].x
       IN  [before EXCEPT ![k] =
              [x |-> rightmost + randint(UnitAt(sd, pos, 2 * (k - 1)),
                                         MIN_PIPE_SPACING, MAX_PIPE_SPACING),
               scored |-> FALSE,
               gap_top |-> randomize_position(UnitAt(sd, pos, 2 * (k - 1) + 1))]]

\* reset_game's loop over pipes[1 .. k]: all_pipes after it, the generator at
\* pos when the loop starts (each turn draws dist, then gap_top)
RECURSIVE ResetPipes(_, _, _, _)
ResetPipes(all_pipes, sd, pos, k) ==
  IF k = 0 THEN all_pipes
  ELSE LET before == ResetPipes(all_pipes, sd, pos, k - 1)
           rightmost == IF k = 1 THEN WINDOW_WIDTH ELSE before[k - 1].x
       IN  [before EXCEPT ![k] =
              [x |-> rightmost + randint(UnitAt(sd, pos, 2 * (k - 1)),
                                         MIN_PIPE_SPACING, MAX_PIPE_SPACING),
               scored |-> FALSE,
               gap_top |-> randomize_position(UnitAt(sd, pos, 2 * (k - 1) + 1))]]

\* "python flappy.py": main_human_mode starts, a human sits down
MainHumanMode ==
  /\ pc = "entry"
  /\ pc' = "h_frame"
  /\ player' \in PlayerPool
  /\ UNCHANGED <<seed, rng_pos, pipes, bird, game_state, score, high_score,
                 ticks, aiVars, current_pipe_speed, pipe_i>>

\* MenuFrame with the flap applied whatever game_state is
MenuFrame_flaps ==
  /\ pc = "h_frame"
  /\ game_state \in {STATE_START, STATE_GAME_OVER}
  /\ \E space \in BOOLEAN :
       bird' = IF space THEN flap(bird) ELSE bird
  /\ UNCHANGED <<pc, seed, rng_pos, pipes, game_state, score, high_score,
                 player, ticks, aiVars, current_pipe_speed, pipe_i>>

\* a frame in STATE_START or STATE_GAME_OVER with no button clicked; SPACE may
\* be pressed
MenuFrame ==
  /\ pc = "h_frame"
  /\ game_state \in {STATE_START, STATE_GAME_OVER}
  /\ \E space \in BOOLEAN :
       bird' = IF space /\ game_state = STATE_PLAYING THEN flap(bird) ELSE bird
  /\ UNCHANGED <<pc, seed, rng_pos, pipes, game_state, score, high_score,
                 player, ticks, aiVars, current_pipe_speed, pipe_i>>

\* a frame in STATE_START or STATE_GAME_OVER with the Start button clicked:
\* start_game, that is reset_game and STATE_PLAYING; the human may play the
\* new game in another way than the last one
StartGame ==
  /\ pc = "h_frame"
  /\ game_state \in {STATE_START, STATE_GAME_OVER}
  /\ score' = 0
  /\ bird' = BirdReset(bird)
  /\ pipes' = ResetPipes(pipes, seed, rng_pos, Len(pipes))
  /\ rng_pos' = Advance(2 * Len(pipes))
  /\ game_state' = STATE_PLAYING
  /\ ticks' = 0
  /\ player' \in PlayerPool
  /\ UNCHANGED <<pc, seed, high_score, aiVars, current_pipe_speed, pipe_i>>

\* a QUIT event, or the Quit button clicked in STATE_START or STATE_GAME_OVER:
\* quit_game
QuitGame ==
  /\ pc = "h_frame"
  /\ pc' = "exit"
  /\ UNCHANGED <<seed, rng_pos, humanVars, aiVars, current_pipe_speed, pipe_i>>

\* is SPACE pressed in the frame of play that follows t frames of the game
SpacePressed(b, who, all_pipes, t) ==
  t < who.taps \/ Decide(b, who.rule, all_pipes) # b

\* a frame in STATE_PLAYING, up to bird.update: the events, the speeds, the bird
PlayBird(limit) ==
  /\ pc = "h_frame"
  /\ game_state = STATE_PLAYING
  /\ ticks < limit
  /\ ticks' = ticks + 1
  /\ bird' = BirdUpdate(IF SpacePressed(bird, player, pipes, ticks)
                          THEN flap(bird) ELSE bird)
  /\ current_pipe_speed' = get_dynamic_speeds(score)[2]
  /\ pipe_i' = 1
  /\ pc' = "h_pipes"
  /\ UNCHANGED <<seed, rng_pos, pipes, game_state, score, high_score, player,
                 aiVars>>

\* one turn of "for pipe in pipes": pipe.update, then the pass event
PlayPipe ==
  /\ pc = "h_pipes"
  /\ LET moved == PipeUpdate(pipes, pipe_i, current_pipe_speed,
                             NextUnit(0), NextUnit(1))
         passes == pipe_i \in Passing(moved, bird.x)
     IN  /\ pipes' = IF passes THEN [moved EXCEPT ![pipe_i].scored = TRUE]
                               ELSE moved
         /\ score' = IF passes THEN score + 1 ELSE score
  /\ rng_pos' = IF Recycles(pipes, pipe_i, current_pipe_speed)
                  THEN Advance(2) ELSE rng_pos
  /\ IF pipe_i < NUM_PIPES
       THEN pipe_i' = pipe_i + 1 /\ pc' = "h_pipes"
       ELSE pipe_i' = 0 /\ pc' = "h_check"
  /\ UNCHANGED <<seed, bird, game_state, high_score, player, ticks, aiVars,
                 current_pipe_speed>>

\* manual play's bounds check: bird.y < 0 or (bird.y + BIRD_HEIGHT) > WINDOW_HEIGHT
HumanOutOfBounds(b) == b.y < 0 \/ b.y + 2 * BIRD_HEIGHT > 2 * WINDOW_HEIGHT

\* does the frame end the game: out of bounds, or a pipe is hit
GameEnds(b, all_pipes) ==
  \/ HumanOutOfBounds(b)
  \/ \E i \in DOMAIN all_pipes : HitsPipe(b, all_pipes[i])

\* PlayCheck with the high score overwritten by the score of the game that ends
PlayCheck_lastscore ==
  /\ pc = "h_check"
  /\ pc' = "h_frame"
  /\ IF GameEnds(bird, pipes)
       THEN /\ high_score' = score
            /\ game_state' = STATE_GAME_OVER
       ELSE UNCHANGED <<high_score, game_state>>
  /\ UNCHANGED <<seed, rng_pos, pipes, bird, score, player, ticks, aiVars,
                 current_pipe_speed, pipe_i>>

\* the rest of a frame in STATE_PLAYING: bounds and collisions
PlayCheck ==
  /\ pc = "h_check"
  /\ pc' = "h_frame"
  /\ IF GameEnds(bird, pipes)
       THEN /\ high_score' = IF score > high_score THEN score ELSE high_score
            /\ game_state' = STATE_GAME_OVER
       ELSE UNCHANGED <<high_score, game_state>>
  /\ UNCHANGED <<seed, rng_pos, pipes, bird, score, player, ticks, aiVars,
                 current_pipe_speed, pipe_i>>

HumanNext(limit) ==
  \/ MenuFrame
  \/ StartGame
  \/ QuitGame
  \/ PlayBird(limit)
  \/ PlayPipe
  \/ PlayCheck

AINext(limit) ==
  \/ EvalGenomes
  \/ FrameBegin(limit)
  \/ QuitEvent(limit)
  \/ LoopExit
  \/ AdvancePipe
  \/ DecideAll
  \/ Physics
  \/ Collide
  \/ ScorePass
  \/ Remove

\* one run of the program: manual play, or NEAT's first generation
Next ==
  \/ RunNeat(Populations)
  \/ AINext(MaxFrames)
  \/ MainHumanMode
  \/ HumanNext(MaxFrames)

Spec == Init /\ [][Next]_vars

\* ------------------------------------------------------------------------
\* One AI round run to its end, whatever the frame: the generator repeats its
\* least or its greatest draw and the population is one genome in NumGenomes
\* copies, which is what lets a round last.  Two frames past the frame limit
\* end the exploration.
\* ------------------------------------------------------------------------
CapSeeds == {sd \in Seeds : sd[1] = sd[2] /\ sd[1] \in {0, NumSamples - 1}}
CapPopulations == {p \in Populations : \A i \in DOMAIN p : p[i] = p[1]}

InitCap == Init /\ seed \in CapSeeds

NextCap ==
  \/ RunNeat(CapPopulations)
  \/ AINext(FRAME_LIMIT + 2)

SpecCap == InitCap /\ [][NextCap]_vars

\* the program keeps running: a step that can be taken is taken
SpecCapFair == SpecCap /\ WF_vars(NextCap)

\* "python flappy.py ai" with NEAT going on from generation to generation, any
\* population each time, the rounds explored up to MaxFrames frames
NextGenerations ==
  \/ RunNeat(Populations)
  \/ AINext(MaxFrames)
  \/ NextGeneration

SpecGenerations == InitCap /\ [][NextGenerations]_vars

\* "python flappy.py": manual play, game after game, each game explored up to
\* ManualFrames frames
NextManual ==
  \/ MainHumanMode
  \/ HumanNext(ManualFrames)

SpecManual == Init /\ [][NextManual]_vars

\* ------------------------------------------------------------------------
\* Helpers of the properties
\* ------------------------------------------------------------------------
Range(s) == {s[i] : i \in DOMAIN s}

\* the program positions inside a frame of eval_genomes
FramePcs == {"pipes", "decide", "physics", "collide", "score", "remove"}

\* gap_top within [MIN_PIPE_HEIGHT, WINDOW_HEIGHT - PIPE_GAP - MIN_PIPE_HEIGHT]
GapTopInRange(p) ==
  /\ MIN_PIPE_HEIGHT <= p.gap_top
  /\ p.gap_top <= WINDOW_HEIGHT - PIPE_GAP - MIN_PIPE_HEIGHT

\* the wall condition as the specification words it, y in half pixels
BeyondWalls(b) == b.y < 0 \/ b.y + 2 * BIRD_HEIGHT >= 2 * WINDOW_HEIGHT

\* the elements of s at the positions not in marked, in their order
RECURSIVE KeepUnmarked(_, _)
KeepUnmarked(s, marked) ==
  IF s = <<>> THEN <<>>
  ELSE LET front == KeepUnmarked(SubSeq(s, 1, Len(s) - 1), marked)
       IN  IF Len(s) \in marked THEN front ELSE Append(front, s[Len(s)])

\* ------------------------------------------------------------------------
\* C1: in manual play and in an AI round alike, every obstacle's gap_top is
\* always within [MIN_PIPE_HEIGHT, WINDOW_HEIGHT - PIPE_GAP - MIN_PIPE_HEIGHT],
\* that is [50, 400]: after construction, after recycles, after reset_game.
\* Hence both segments are at least MIN_PIPE_HEIGHT high, and 25 never occurs.
\* ------------------------------------------------------------------------
C1_GapTopInRange ==
  \A pool \in {pipes, local_pipes} :
    \A i \in DOMAIN pool :
      /\ GapTopInRange(pool[i])
      /\ 50 <= pool[i].gap_top /\ pool[i].gap_top <= 400
      /\ pool[i].gap_top # 25
      /\ get_rects(pool[i])[1][4] >= MIN_PIPE_HEIGHT
      /\ get_rects(pool[i])[2][4] >= MIN_PIPE_HEIGHT

\* an AI round in which an obstacle has been recycled (it stands to the right
\* of where it was built) and got the greatest gap_top
C1_Witness ==
  /\ pc \in FramePcs
  /\ \E i \in DOMAIN local_pipes :
       /\ local_pipes[i].x > WINDOW_WIDTH + (i - 1) * MIN_PIPE_SPACING
       /\ local_pipes[i].gap_top = WINDOW_HEIGHT - PIPE_GAP - MIN_PIPE_HEIGHT

\* ------------------------------------------------------------------------
\* C2: per obstacle and passage the score is incremented exactly once: the
\* score grows by one for each obstacle whose scored flag goes from false to
\* true and never otherwise, scored goes back to false only in a recycle (or
\* in reset_game), and no obstacle is recycled while still unscored.
\* ------------------------------------------------------------------------
C2_ScoredOncePerPassage ==
  [][ /\ (pc = "pipes" /\ Recycles(local_pipes, pipe_i, current_pipe_speed))
           => local_pipes[pipe_i].scored
      /\ (pc = "h_pipes" /\ Recycles(pipes, pipe_i, current_pipe_speed))
           => pipes[pipe_i].scored
      /\ (pc # "neat")
           => /\ local_score' - local_score =
                   Cardinality({i \in DOMAIN local_pipes :
                      ~local_pipes[i].scored /\ local_pipes'[i].scored})
              /\ \A i \in DOMAIN local_pipes :
                   (local_pipes[i].scored /\ ~local_pipes'[i].scored)
                     => /\ pc = "pipes" /\ i = pipe_i
                        /\ Recycles(local_pipes, pipe_i, current_pipe_speed)
      /\ (pc = "h_pipes")
           => /\ score' - score =
                   Cardinality({i \in DOMAIN pipes :
                      ~pipes[i].scored /\ pipes'[i].scored})
              /\ \A i \in DOMAIN pipes :
                   (pipes[i].scored /\ ~pipes'[i].scored)
                     => /\ i = pipe_i
                        /\ Recycles(pipes, pipe_i, current_pipe_speed)
    ]_vars

\* ------------------------------------------------------------------------
\* C3: at the end of every frame, any two obstacles adjacent in x order are at
\* least MIN_PIPE_SPACING and at most MAX_PIPE_SPACING apart.
\* ------------------------------------------------------------------------
SpacingKept(pool) ==
  \A i, j \in DOMAIN pool :
    /\ (i # j) => pool[i].x # pool[j].x
    /\ ( /\ pool[i].x < pool[j].x
         /\ ~\E k \in DOMAIN pool : pool[i].x < pool[k].x /\ pool[k].x < pool[j].x )
         => /\ pool[j].x - pool[i].x >= MIN_PIPE_SPACING
            /\ pool[j].x - pool[i].x <= MAX_PIPE_SPACING

C3_SpacingAtFrameEnd ==
  /\ (pc = "loop") => SpacingKept(local_pipes)
  /\ (pc = "h_frame" /\ game_state # STATE_START) => SpacingKept(pipes)

\* ------------------------------------------------------------------------
\* C4: Pipe.update moves the obstacle left by exactly the speed; if then
\* x + PIPE_WIDTH < 0 the obstacle is recycled: its x becomes the greatest x
\* of the other obstacles plus a spacing in [MIN_PIPE_SPACING,
\* MAX_PIPE_SPACING], scored becomes false, gap_top is drawn again; otherwise
\* nothing but x changes.  The other obstacles are untouched and the pool keeps
\* its NUM_PIPES obstacles throughout a round.
\* ------------------------------------------------------------------------
UpdatedAsClaimed(before, after, i, speed) ==
  LET nx == before[i].x - speed
      others == {before[j].x : j \in (DOMAIN before) \ {i}}
  IN  /\ DOMAIN after = 1 .. NUM_PIPES
      /\ \A j \in (DOMAIN before) \ {i} : after[j].x = before[j].x
                                        /\ after[j].gap_top = before[j].gap_top
      /\ IF nx + PIPE_WIDTH < 0
           THEN /\ after[i].x - Max(others) >= MIN_PIPE_SPACING
                /\ after[i].x - Max(others) <= MAX_PIPE_SPACING
                /\ ~after[i].scored
                /\ GapTopInRange(after[i])
           ELSE /\ after[i].x = nx
                /\ after[i].gap_top = before[i].gap_top

C4_PipeUpdate ==
  [][ /\ (pc = "pipes")
           => /\ UpdatedAsClaimed(local_pipes, local_pipes', pipe_i,
                                  current_pipe_speed)
              /\ \A j \in DOMAIN local_pipes :
                   (j # pipe_i \/ ~Recycles(local_pipes, pipe_i,
                                            current_pipe_speed))
                     => local_pipes'[j].scored = local_pipes[j].scored
              /\ (rng_pos' # rng_pos)
                   => Recycles(local_pipes, pipe_i, current_pipe_speed)
      /\ (pc = "h_pipes")
           => UpdatedAsClaimed(pipes, pipes', pipe_i, current_pipe_speed)
      /\ (pc \in FramePcs \cup {"loop"})
           => DOMAIN local_pipes' = 1 .. NUM_PIPES
      /\ DOMAIN pipes' = 1 .. NUM_PIPES
    ]_vars

\* the first obstacle has just been recycled: it is unscored again and stands
\* beyond the last one
C4_Witness ==
  /\ pc = "pipes"
  /\ pipe_i = 2
  /\ ~local_pipes[1].scored
  /\ local_pipes[1].x >= local_pipes[NUM_PIPES].x + MIN_PIPE_SPACING

\* ------------------------------------------------------------------------
\* C5: in an AI round, an agent that after the frame's physics update has
\* y < 0 or y + BIRD_HEIGHT >= WINDOW_HEIGHT gets the wall penalty
\* subtracted from its genome's fitness and is removed in that same frame; no
\* such agent is in the live set when the next frame starts.
\* ------------------------------------------------------------------------
C5_WallState ==
  /\ (pc \in {"score", "remove"})
       => \A k \in DOMAIN ai_birds :
            BeyondWalls(ai_birds[k]) => k \in Range(indices_to_remove)
  /\ (pc \in {"loop", "pipes", "decide", "physics", "done", "exit"})
       => \A k \in DOMAIN ai_birds : ~BeyondWalls(ai_birds[k])

C5_WallViolation ==
  /\ []C5_WallState
  /\ [][ (pc = "collide")
           => \A k \in DOMAIN ai_birds :
                BeyondWalls(ai_birds[k])
                  => fitness'[ge[k]] = fitness[ge[k]] - PENALTY ]_vars

\* an agent at the floor has just been penalised and marked
C5_Witness ==
  /\ pc = "score"
  /\ \E k \in DOMAIN ai_birds :
       /\ ai_birds[k].y + 2 * BIRD_HEIGHT >= 2 * WINDOW_HEIGHT
       /\ k \in Range(indices_to_remove)
       /\ fitness[ge[k]] = -PENALTY

\* ------------------------------------------------------------------------
\* C6: per agent and frame, wall violation and obstacle collision exclude
\* each other: each agent gets at most one penalty and is marked at most once
\* in a frame, and an agent beyond the walls gets exactly one, whether or not
\* its rectangle intersects an obstacle.
\* ------------------------------------------------------------------------
C6_MarkedOnce ==
  (pc \in {"score", "remove"})
    => \A i, j \in DOMAIN indices_to_remove :
         (i # j) => indices_to_remove[i] # indices_to_remove[j]

C6_OnePenalty ==
  /\ []C6_MarkedOnce
  /\ [][ (pc = "collide")
           => /\ \A g \in DOMAIN fitness : fitness'[g] >= fitness[g] - PENALTY
              /\ \A k \in DOMAIN ai_birds :
                   BeyondWalls(ai_birds[k])
                     => fitness'[ge[k]] = fitness[ge[k]] - PENALTY ]_vars

\* an agent beyond the walls whose rectangle also intersects an obstacle has
\* been marked once
C6_Witness ==
  /\ pc = "score"
  /\ \E k \in DOMAIN ai_birds :
       /\ BeyondWalls(ai_birds[k])
       /\ \E i \in DOMAIN local_pipes : HitsPipe(ai_birds[k], local_pipes[i])
       /\ Count(indices_to_remove, k) = 1

\* ------------------------------------------------------------------------
\* C7: a pass event raises the round score by exactly 1 however many agents
\* live, and gives the bonus to exactly the agents that survive the frame: an
\* agent penalised and marked for removal in that frame gets none.
\* ------------------------------------------------------------------------
C7_BonusForSurvivorsOnly ==
  [][ (pc = "score")
        => LET n == Cardinality(Passing(local_pipes, BIRD_X))
           IN  /\ local_score' = local_score + n
               /\ \A j \in DOMAIN ge :
                    fitness'[ge[j]] =
                      fitness[ge[j]]
                        + (IF j \in Range(indices_to_remove)
                             THEN 0 ELSE PASS_BONUS * n) ]_vars

\* ------------------------------------------------------------------------
\* C8: ai_birds, nets and ge always have the same length, and position i of
\* each holds the bird, the network and the genome created together; the
\* batch removal takes exactly the agents marked in the frame out of all
\* three, keeps the others and keeps their order.
\* ------------------------------------------------------------------------
C8_LockStepState ==
  /\ Len(ai_birds) = Len(nets)
  /\ Len(nets) = Len(ge)
  /\ \A i \in DOMAIN ai_birds : ai_birds[i].tag = nets[i] /\ nets[i] = ge[i]

C8_LockStep ==
  /\ []C8_LockStepState
  /\ [][ (pc = "remove")
           => /\ ai_birds' = KeepUnmarked(ai_birds, Range(indices_to_remove))
              /\ nets' = KeepUnmarked(nets, Range(indices_to_remove))
              /\ ge' = KeepUnmarked(ge, Range(indices_to_remove)) ]_vars

\* the first agent has been removed and the second one, kept, has moved to
\* position 1 of all three lists
C8_Witness ==
  /\ pc = "loop"
  /\ indices_to_remove = <<1>>
  /\ Len(ai_birds) = NumGenomes - 1
  /\ ai_birds[1].tag = 2 /\ nets[1] = 2 /\ ge[1] = 2

\* ------------------------------------------------------------------------
\* C9: every AI round ends: the harness leaves the loop as soon as no agent
\* lives or the frame counter exceeds FRAME_LIMIT, whatever the controllers
\* do, and the frame counter never exceeds FRAME_LIMIT + 1.
\* ------------------------------------------------------------------------
C9_Bounded ==
  /\ frame_count <= FRAME_LIMIT + 1
  /\ (pc = "loop") => frame_count <= FRAME_LIMIT
  /\ (pc \in FramePcs) => Len(ai_birds) > 0
  /\ (pc = "done") => (Len(ai_birds) = 0 \/ frame_count = FRAME_LIMIT + 1)

C9_RoundTerminates ==
  /\ []C9_Bounded
  /\ <>(pc \in {"done", "exit"})

\* a round of agents that never die has been stopped by the frame limit
C9_Witness ==
  /\ pc = "done"
  /\ frame_count = FRAME_LIMIT + 1
  /\ Len(ai_birds) = NumGenomes

\* ------------------------------------------------------------------------
\* C10: when the last live agents are eliminated in frame k, the harness is
\* done at frame k with no live agent: after the removal no obstacle is
\* advanced, the frame counter is not incremented, and neither the round score
\* nor any fitness changes.
\* ------------------------------------------------------------------------
C10_DoneAtOnce ==
  [][ /\ (pc = "loop" /\ Len(ai_birds) = 0)
           => /\ pc' = "done"
              /\ UNCHANGED <<local_pipes, frame_count, local_score, fitness,
                             ai_birds>>
      /\ (pc = "done")
           => UNCHANGED <<local_pipes, frame_count, local_score, fitness,
                          ai_birds>>
    ]_vars

\* a round has ended in the frame in which all its agents were eliminated
\* together
C10_Witness ==
  /\ pc = "done"
  /\ Len(ai_birds) = 0
  /\ Len(indices_to_remove) = NumGenomes
  /\ frame_count > 0

\* ------------------------------------------------------------------------
\* C11: get_dynamic_speeds(score) is <<BG_SCROLL_SPEED_BASE + score \div 5,
\* PIPE_SPEED_BASE + score \div 5>> for every score reached (12 gives 4 and
\* 5), it does not decrease when the score grows, and the obstacle speed of a
\* frame is the one of the score the frame started with: it is fixed when the
\* frame begins and stays while the obstacles are advanced.
\* ------------------------------------------------------------------------
C11_SpeedOfScore ==
  /\ get_dynamic_speeds(local_score)
       = <<BG_SCROLL_SPEED_BASE + local_score \div 5,
           PIPE_SPEED_BASE + local_score \div 5>>
  /\ get_dynamic_speeds(12) = <<4, 5>>
  /\ \A k \in {1, 2} :
       get_dynamic_speeds(local_score + 1)[k] >= get_dynamic_speeds(local_score)[k]
  /\ (pc \in {"pipes", "decide", "physics", "collide", "score"})
       => current_pipe_speed = PIPE_SPEED_BASE + local_score \div 5

C11_DynamicSpeeds ==
  /\ []C11_SpeedOfScore
  /\ [][ /\ (pc = "loop" /\ pc' = "pipes")
              => current_pipe_speed' = PIPE_SPEED_BASE + local_score \div 5
         /\ (pc \in FramePcs)
              => current_pipe_speed' = current_pipe_speed
         /\ (pc \in FramePcs \cup {"loop"})
              => current_pipe_speed' >= current_pipe_speed ]_vars

\* a frame that began with score 12 advances its obstacles with speed 5
C11_Witness ==
  /\ pc = "pipes"
  /\ local_score = 12
  /\ current_pipe_speed = 5

\* ------------------------------------------------------------------------
\* C12: Bird.update sets vel_y to the previous vel_y + GRAVITY and then y to
\* the previous y + the new vel_y, for every agent in every frame and for the
\* manual bird alike, without clamping (y may leave the window at either
\* side), and changes nothing else of the bird: x stays BIRD_X.
\* ------------------------------------------------------------------------
Integrated(before, after) ==
  /\ after.vel_y = before.vel_y + GRAVITY
  /\ after.y = before.y + after.vel_y
  /\ after.x = before.x /\ after.x = BIRD_X
  /\ after.tag = before.tag

C12_PureIntegration ==
  [][ /\ (pc = "physics")
           => /\ Len(ai_birds') = Len(ai_birds)
              /\ \A k \in DOMAIN ai_birds :
                   Integrated(ai_birds[k], ai_birds'[k])
      /\ (pc = "h_frame" /\ pc' = "h_pipes")
           => \/ Integrated(bird, bird')
              \/ Integrated([bird EXCEPT !.vel_y = FLAP_STRENGTH], bird')
    ]_vars

\* the update has just taken an agent above the window: its y is negative,
\* lower than the velocity alone would make it from y = 0
C12_Witness ==
  /\ pc = "collide"
  /\ \E k \in DOMAIN ai_birds :
       /\ ai_birds[k].y < 0
       /\ ai_birds[k].y - ai_birds[k].vel_y >= 0

\* ------------------------------------------------------------------------
\* C13: Bird.flap sets vel_y to FLAP_STRENGTH (-8, that is -16 half pixels)
\* whatever the velocity was, leaves x and y alone, and flapping twice gives
\* what flapping once gives; the velocity after the next update is
\* FLAP_STRENGTH + GRAVITY.  In a frame an agent is either left alone by the
\* decision step or gets exactly that override.
\* ------------------------------------------------------------------------
Flapped(before, after) ==
  /\ after.vel_y = FLAP_STRENGTH
  /\ after.vel_y = 2 * (-8)
  /\ after.x = before.x
  /\ after.y = before.y
  /\ after.tag = before.tag

C13_FlapOf(b) ==
  /\ Flapped(b, flap(b))
  /\ flap(flap(b)) = flap(b)
  /\ BirdUpdate(flap(b)).vel_y = FLAP_STRENGTH + GRAVITY

C13_FlapState ==
  /\ \A k \in DOMAIN ai_birds : C13_FlapOf(ai_birds[k])
  /\ C13_FlapOf(bird)

C13_FlapOverrides ==
  /\ []C13_FlapState
  /\ [][ /\ (pc = "decide")
              => \A k \in DOMAIN ai_birds :
                   \/ ai_birds'[k] = ai_birds[k]
                   \/ Flapped(ai_birds[k], ai_birds'[k])
         /\ (pc = "h_frame" /\ pc' = "h_pipes")
              => bird'.vel_y \in {bird.vel_y + GRAVITY, FLAP_STRENGTH + GRAVITY}
       ]_vars

\* an agent that was falling (it is below the line it started from, and no
\* update gives the velocity FLAP_STRENGTH) has flapped in this frame
C13_Witness ==
  /\ pc = "physics"
  /\ \E k \in DOMAIN ai_birds :
       /\ ai_birds[k].vel_y = FLAP_STRENGTH
       /\ ai_birds[k].y > 2 * (WINDOW_HEIGHT \div 2)

\* ------------------------------------------------------------------------
\* C14: every call of eval_genomes starts from the same simulation state,
\* whatever state the round before ended in: round score 0, frame counter 0,
\* one new agent per genome at y = WINDOW_HEIGHT // 2 with velocity 0, a new
\* pool of NUM_PIPES unscored obstacles at x = WINDOW_WIDTH + i *
\* MIN_PIPE_SPACING with gap_top in the valid range; nothing of manual play is
\* touched or used.
\* ------------------------------------------------------------------------
RoundStart ==
  /\ local_score = 0
  /\ frame_count = 0
  /\ Len(ai_birds) = Len(genomes) /\ Len(nets) = Len(genomes)
  /\ Len(ge) = Len(genomes)
  /\ \A i \in DOMAIN ai_birds :
       /\ ai_birds[i].x = BIRD_X
       /\ ai_birds[i].y = 2 * (WINDOW_HEIGHT \div 2)
       /\ ai_birds[i].vel_y = 0
       /\ ai_birds[i].tag = i /\ ge[i] = i
  /\ DOMAIN local_pipes = 1 .. NUM_PIPES
  /\ \A i \in DOMAIN local_pipes :
       /\ local_pipes[i].x = WINDOW_WIDTH + (i - 1) * MIN_PIPE_SPACING
       /\ ~local_pipes[i].scored
       /\ GapTopInRange(local_pipes[i])

C14_RoundStartState == (pc = "loop" /\ frame_count = 0) => RoundStart

C14_StartsAfresh ==
  /\ []C14_RoundStartState
  /\ [][ (pc = "neat")
           => /\ pc' = "loop" /\ frame_count' = 0
              /\ UNCHANGED <<pipes, bird, score, high_score, game_state>> ]_vars

\* a second round has been set up: the generator has drawn for the pool of
\* manual play and for two pools of rounds (a recycle draws twice, which the
\* period of the seed absorbs)
C14_Witness ==
  /\ pc = "loop"
  /\ frame_count = 0
  /\ Len(ai_birds) = NumGenomes
  /\ rng_pos = AdvanceFrom(seed, 1, 3 * NUM_PIPES)

\* ------------------------------------------------------------------------
\* C15: in every frame of an AI round the obstacle fed to an agent's
\* controller is, among the obstacles whose offset (obstacle x - agent x)
\* exceeds -PIPE_WIDTH, the one with the smallest offset; an obstacle with
\* offset <= -PIPE_WIDTH, fully passed, is never the one selected.
\* ------------------------------------------------------------------------
Upcoming(b, all_pipes) ==
  {i \in DOMAIN all_pipes : all_pipes[i].x - b.x > -PIPE_WIDTH}

C15_NearestUpcoming ==
  (pc = "decide")
    => \A k \in DOMAIN ai_birds :
         LET n == NearestPipe(ai_birds[k], local_pipes)
         IN  /\ n \in Upcoming(ai_birds[k], local_pipes)
             /\ \A j \in Upcoming(ai_birds[k], local_pipes) :
                  local_pipes[n].x <= local_pipes[j].x

\* ------------------------------------------------------------------------
\* C16: in every frame of an AI round every agent alive when the frame starts
\* has its controller activated once: an obstacle always qualifies as
\* nearest, so none is skipped; the activations come before any physics
\* update of the frame; and the agent flaps in the frame exactly when output
\* 0 is greater than 0.5.
\* ------------------------------------------------------------------------
\* output[0] of agent k's controller for its inputs of this frame, doubled
Output2(k) ==
  LET n == NearestPipe(ai_birds[k], local_pipes)
  IN  activate(genomes[nets[k]], ai_birds[k].y, ai_birds[k].vel_y,
               local_pipes[n].x - ai_birds[k].x, local_pipes[n].gap_top,
               local_pipes[n].gap_top + PIPE_GAP)

C16_NoneSkipped ==
  (pc = "decide")
    => \A k \in DOMAIN ai_birds :
         /\ NearestPipe(ai_birds[k], local_pipes) \in DOMAIN local_pipes
         /\ ai_birds[k].vel_y # FLAP_STRENGTH

C16_ActivatedOnce ==
  /\ []C16_NoneSkipped
  /\ [][ /\ (pc = "decide")
              => /\ pc' = "physics"
                 /\ Len(ai_birds') = Len(ai_birds)
                 /\ \A k \in DOMAIN ai_birds :
                      /\ (ai_birds'[k].vel_y = FLAP_STRENGTH) <=> (Output2(k) > 1)
                      /\ (Output2(k) <= 1) => ai_birds'[k] = ai_birds[k]
                      /\ ai_birds'[k].y = ai_birds[k].y
         /\ (pc \in {"loop", "pipes"})
              => ai_birds' = ai_birds
       ]_vars

\* the decisions of a frame are taken: an agent whose output is exactly 0.5
\* has not flapped, another one has
C16_Witness ==
  /\ pc = "physics"
  /\ \E k \in DOMAIN ai_birds :
       /\ genomes[nets[k]].idle = 1
       /\ ai_birds[k].vel_y # FLAP_STRENGTH
  /\ \E j \in DOMAIN ai_birds : ai_birds[j].vel_y = FLAP_STRENGTH

\* ------------------------------------------------------------------------
\* C17: manual play ends the game on the wall condition of the AI rounds: if
\* after the frame's physics update the bird has y < 0 or y + BIRD_HEIGHT >=
\* WINDOW_HEIGHT, the case y + BIRD_HEIGHT = WINDOW_HEIGHT included, the game
\* is in STATE_GAME_OVER when the frame ends.
\* ------------------------------------------------------------------------
C17_SameWallCondition ==
  [][ (pc = "h_check" /\ BeyondWalls(bird))
        => (pc' = "h_frame" /\ game_state' = STATE_GAME_OVER) ]_vars

\* ------------------------------------------------------------------------
\* C18: the harness changes a genome's fitness only by the deltas of the
\* events, the penalty of an elimination and the bonus of a pass event.
\* As stated: it never assigns the fitness, so a round ends with the value
\* the evolutionary driver supplied plus the deltas.
\* As the code has it: the setup of the round assigns 0 to every genome's
\* fitness, whatever the driver supplied, and from then on the fitness only
\* changes by the deltas, so a round ends with the sum of its deltas.
\* ------------------------------------------------------------------------
\* the steps of a round after its setup change the fitness by deltas only
OnlyDeltas ==
  /\ (pc = "collide")
       => \A g \in DOMAIN fitness :
            fitness'[g] \in {fitness[g], fitness[g] - PENALTY}
  /\ (pc = "score")
       => \A g \in DOMAIN fitness :
            fitness'[g] \in {fitness[g],
                             fitness[g]
                               + PASS_BONUS * (local_score' - local_score)}
  /\ (pc \in {"loop", "pipes", "decide", "physics", "remove", "done"})
       => fitness' = fitness

C18_NeverAssigned ==
  [][ /\ OnlyDeltas
      /\ (pc = "neat") => fitness' = fitness ]_vars

C18_ZeroThenDeltas ==
  [][ /\ OnlyDeltas
      /\ (pc = "neat") => fitness' = [g \in DOMAIN genomes |-> 0] ]_vars

\* a later round (the generator has drawn for a third pool) has ended with a
\* genome whose fitness is the sum of the round's deltas, one bonus and one
\* penalty
C18_Witness ==
  /\ pc = "done"
  /\ rng_pos = AdvanceFrom(seed, 1, 3 * NUM_PIPES)
  /\ local_score = 1
  /\ \E g \in DOMAIN fitness : fitness[g] = PASS_BONUS - PENALTY

\* ------------------------------------------------------------------------
\* C19: fitness accounting of an AI round.  A genome is penalised at most
\* once, by exactly PENALTY, and its agent leaves the lists in the frame of
\* the penalty; the fitness of a genome whose agent has left the lists never
\* changes again; a pass event adds PASS_BONUS to every genome whose agent is
\* still in the lists when it fires.  Hence at every frame boundary: fitness
\* >= -1, a genome still alive has 5 * round score, an eliminated one has
\* 5 * n - 1 for the n <= round score events it was in the lists for.
\* ------------------------------------------------------------------------
C19_AtFrameBoundary ==
  (pc \in {"loop", "done"})
    => /\ \A g \in DOMAIN fitness : fitness[g] >= -PENALTY
       /\ \A k \in DOMAIN ge : fitness[ge[k]] = PASS_BONUS * local_score
       /\ \A g \in (DOMAIN fitness) \ Range(ge) :
            \E n \in 0 .. local_score : fitness[g] = PASS_BONUS * n - PENALTY

C19_FitnessAccounting ==
  /\ []C19_AtFrameBoundary
  /\ [][ /\ (pc \in FramePcs \cup {"loop", "done"})
              => \A g \in (DOMAIN fitness) \ Range(ge) : fitness'[g] = fitness[g]
         /\ (pc = "collide")
              => \A k \in DOMAIN ge :
                   fitness'[ge[k]] =
                     fitness[ge[k]]
                       - (IF k \in Range(indices_to_remove') THEN PENALTY ELSE 0)
         /\ (pc = "score")
              => \A k \in DOMAIN ge :
                   fitness'[ge[k]] =
                     fitness[ge[k]] + PASS_BONUS * (local_score' - local_score)
         /\ (pc = "remove")
              => \A k \in Range(indices_to_remove) : ge[k] \notin Range(ge')
       ]_vars

\* a frame has ended in which a pass event fired and an agent was eliminated:
\* its genome has the bonus and the penalty, the genome still alive has 5
\* times the score
C19_Witness ==
  /\ pc = "loop"
  /\ local_score = 1
  /\ \E g \in (DOMAIN fitness) \ Range(ge) : fitness[g] = PASS_BONUS - PENALTY
  /\ \E k \in DOMAIN ge : fitness[ge[k]] = PASS_BONUS

\* ------------------------------------------------------------------------
\* C20: the state machine of manual play.  game_state only goes from
\* STATE_START or STATE_GAME_OVER to STATE_PLAYING, by the start action, and
\* from STATE_PLAYING to STATE_GAME_OVER, in a frame whose check finds the
\* bird out of bounds or on an obstacle segment.  Every entry into
\* STATE_PLAYING comes with score 0, the bird at y = WINDOW_HEIGHT // 2 with
\* velocity 0, every obstacle unscored at x > WINDOW_WIDTH and consecutive
\* obstacles MIN_PIPE_SPACING .. MAX_PIPE_SPACING apart: no obstacle is
\* already passed or on the bird.
\* ------------------------------------------------------------------------
GameBegins ==
  /\ score = 0
  /\ bird.x = BIRD_X /\ bird.y = 2 * (WINDOW_HEIGHT \div 2) /\ bird.vel_y = 0
  /\ DOMAIN pipes = 1 .. NUM_PIPES
  /\ \A i \in DOMAIN pipes :
       /\ ~pipes[i].scored
       /\ pipes[i].x > WINDOW_WIDTH
       /\ GapTopInRange(pipes[i])
       /\ pipes[i].x + PIPE_WIDTH >= bird.x + BIRD_WIDTH
       /\ ~HitsPipe(bird, pipes[i])
       /\ (i > 1) => /\ pipes[i].x - pipes[i - 1].x >= MIN_PIPE_SPACING
                     /\ pipes[i].x - pipes[i - 1].x <= MAX_PIPE_SPACING

C20_GameStates ==
  game_state \in {STATE_START, STATE_PLAYING, STATE_GAME_OVER}

C20_StateMachine ==
  /\ []C20_GameStates
  /\ [][ (game_state' # game_state)
           => \/ /\ game_state \in {STATE_START, STATE_GAME_OVER}
                 /\ game_state' = STATE_PLAYING
                 /\ pc = "h_frame"
                 /\ GameBegins'
              \/ /\ game_state = STATE_PLAYING
                 /\ game_state' = STATE_GAME_OVER
                 /\ pc = "h_check"
                 /\ \/ BeyondWalls(bird)
                    \/ \E i \in DOMAIN pipes : HitsPipe(bird, pipes[i])
       ]_vars

\* a game has been lost on the lower edge of the window and the start action
\* has not been taken again yet
C20_Witness ==
  /\ pc = "h_frame"
  /\ game_state = STATE_GAME_OVER
  /\ ticks > 0
  /\ bird.y + 2 * BIRD_HEIGHT > 2 * WINDOW_HEIGHT
  /\ \A i \in DOMAIN pipes : pipes[i].x > WINDOW_WIDTH - ticks * PIPE_SPEED_BASE

\* the larger of two scores
MaxScore(a, b) == IF a > b THEN a ELSE b

\* a step of manual play that ends a game: the wall or collision check of a
\* frame finds the bird out of the window or in an obstacle
GameFinishes ==
  /\ pc = "h_check"
  /\ game_state = STATE_PLAYING
  /\ game_state' = STATE_GAME_OVER

C21_HighScoreState ==
  /\ game_state = STATE_GAME_OVER => high_score >= score
  /\ game_state = STATE_START => high_score = 0
  /\ high_score >= 0

C21_HighScoreStep ==
  /\ high_score' >= high_score
  /\ GameFinishes => high_score' = MaxScore(high_score, score)
  /\ ~GameFinishes => high_score' = high_score
  /\ (game_state' = STATE_PLAYING /\ game_state # STATE_PLAYING)
       => (score' = 0 /\ high_score' = high_score)

\* C21: in manual play high_score never decreases, start_game leaves it alone,
\* high_score >= score whenever game_state is GAME_OVER, and high_score is the
\* maximum of the final scores of the games finished so far: it is 0 until a
\* game ends, the step that ends a game makes it the larger of its old value
\* and that game's score, and no other step changes it
C21_HighScore == []C21_HighScoreState /\ [][C21_HighScoreStep]_vars

\* a game has ended with a score below the score of an earlier game
C21_Witness ==
  /\ pc = "h_frame"
  /\ game_state = STATE_GAME_OVER
  /\ ticks > 0
  /\ high_score > 0
  /\ score < high_score

\* the simulation state of manual play: the bird's y and velocity, every
\* obstacle's x, gap_top and scored flag, score and high_score
simState == <<bird, pipes, score, high_score>>

\* a frame of manual play begins in STATE_START or STATE_GAME_OVER
InMenu ==
  /\ pc = "h_frame"
  /\ game_state \in {STATE_START, STATE_GAME_OVER}

C22_MenuStep ==
  InMenu =>
    /\ game_state' = game_state => simState' = simState
    /\ simState' # simState =>
         /\ game_state' = STATE_PLAYING
         /\ score' = 0
         /\ bird' = BirdReset(bird)
         /\ high_score' = high_score
    /\ game_state' \in {game_state, STATE_PLAYING}

\* C22: in manual play a frame in STATE_START or STATE_GAME_OVER leaves the
\* bird, the obstacles, score and high_score as they are, a SPACE press
\* included, since flap is applied only in STATE_PLAYING; only the start action
\* (start_game: reset_game and STATE_PLAYING) changes them
C22_MenuFramesInert == [][C22_MenuStep]_vars

\* the game is over with an obstacle passed and the bird at a velocity a flap
\* would change, and the frames of STATE_GAME_OVER run on that state
C22_Witness ==
  /\ InMenu
  /\ game_state = STATE_GAME_OVER
  /\ bird.vel_y # 0
  /\ bird.vel_y # FLAP_STRENGTH
  /\ score > 0
  /\ \E i \in 1..Len(pipes) : pipes[i].scored
  /\ ENABLED MenuFrame


=============================================================================
